---- MODULE Spec2Model ----
(***************************************************************************)
(* Model of the GitHub OAuth provider of src/oauth/github/github.go:       *)
(* Login mints a signed state token, Callback runs the default             *)
(* AuthorizeHandler, which verifies the state token, exchanges the code,   *)
(* fetches the profile and links the external identity to the local store. *)
(*                                                                         *)
(* Every flow is one browser round trip (an optional Login request and a   *)
(* Callback request).  The handler of a Callback is cut into steps at its  *)
(* blocking calls: the token exchange, the profile call and each           *)
(* persistence operation, so that callbacks of different flows interleave  *)
(* at that granularity.                                                    *)
(***************************************************************************)
EXTENDS Integers, Sequences, FiniteSets, TLC

VARIABLES githubProvider, config, users, identities, req, overlapped

vars == <<githubProvider, config, users, identities, req, overlapped>>

-----------------------------------------------------------------------------
(* Bounds and input sets *)

\* number of login flows (requests are numbered in order of arrival)
NumFlows == 2

Flows == 1..NumFlows

\* jwt signing methods the host may configure; the HMAC family takes a
\* []byte key, the others (RSA, ECDSA, none) reject one
Methods == {"HS256", "HS512", "RS256"}

HMACMethods == {"HS256", "HS512"}

\* values of Config.SignedString and of the key an outsider may sign with
Secrets == {"s1", "s2"}

\* subject claims a presented token may carry ("" is a missing subject)
Subjects == {"state", "other", ""}

\* numeric subject identifiers the issuer's profile endpoint may return
ProfileIDs == {7, 42}

-----------------------------------------------------------------------------
(* fmt.Sprint of a non-negative integer: its decimal digits *)

Digit == <<"0", "1", "2", "3", "4", "5", "6", "7", "8", "9">>

RECURSIVE Sprint(_)
Sprint(n) ==
    IF n < 10 THEN Digit[n + 1]
    ELSE Sprint(n \div 10) \o Digit[(n % 10) + 1]

\* GithubProvider.GetName
GetName == "github"

-----------------------------------------------------------------------------
(* State tokens.  A token string is modelled by what the jwt parser can    *)
(* tell about it: whether it has three segments, whether they decode, the  *)
(* alg of its header, its subject claim and the key its signature was made *)
(* with.                                                                   *)

Tok(kind, alg, sub, key) == [kind |-> kind, alg |-> alg, sub |-> sub, key |-> key]

\* the empty string, or any string that does not have three segments
NoSegments == Tok("nosegments", "", "", "")

\* three segments that do not decode
Garbled == Tok("garbled", "", "", "")

\* no token (a flow that never went through Login)
NoToken == Tok("none", "", "", "")

Tokens ==
    {NoSegments, Garbled}
        \cup {Tok("jwt", a, s, k) : a \in Methods, s \in Subjects, k \in Secrets}

\* SigningMethod.Sign with a []byte key: only the HMAC family accepts it
SignOK(method) == method \in HMACMethods

\* Mint with the signature made under the OAuth client secret instead of
\* the configured SignedString
MintWithClientSecret(method, secret) ==
    IF SignOK(method) THEN Tok("jwt", method, "state", "ClientSecret") ELSE NoSegments

\* Login: jwt.NewWithClaims(method, StandardClaims{Subject: "state"}) and
\* SignedString([]byte(secret)) with the signing error dropped: a failed
\* signature leaves the empty string
Mint(method, secret) ==
    IF SignOK(method) THEN Tok("jwt", method, "state", secret) ELSE NoSegments

\* SigningMethod.Verify of a token's signature against a []byte key
VerifyOK(tok, secret) == tok.alg \in HMACMethods /\ tok.key = secret

\* jwt.Parse(state, keyFunc) as called by the handler.  jwt.Parse is
\* ParseWithClaims(state, MapClaims{}, keyFunc): the claims of a parsed
\* token are a MapClaims, whose Valid() looks at exp, iat and nbf only.
\* A string without three segments yields no token at all.
Parse(tok, method, secret) ==
    CASE tok.kind = "nosegments" ->
            [nil |-> TRUE, claims |-> "nil", valid |-> FALSE, sub |-> "",
             err |-> "jwt: invalid number of segments"]
      [] tok.kind = "garbled" ->
            [nil |-> FALSE, claims |-> "nil", valid |-> FALSE, sub |-> "",
             err |-> "jwt: malformed"]
      [] tok.kind = "jwt" /\ tok.alg # method ->
            [nil |-> FALSE, claims |-> "MapClaims", valid |-> FALSE, sub |-> tok.sub,
             err |-> "jwt: unexpected signing method"]
      [] tok.kind = "jwt" /\ tok.alg = method /\ ~VerifyOK(tok, secret) ->
            [nil |-> FALSE, claims |-> "MapClaims", valid |-> FALSE, sub |-> tok.sub,
             err |-> "jwt: signature is invalid"]
      [] OTHER ->
            [nil |-> FALSE, claims |-> "MapClaims", valid |-> TRUE, sub |-> tok.sub,
             err |-> "nil"]

-----------------------------------------------------------------------------
(* Records of the store and of the handler *)

\* auth_identity.Basic: the columns the handler reads and writes
Basic(provider, uid, userId) == [provider |-> provider, uid |-> uid, userId |-> userId]

\* the principal returned to the host: nil, a user or an identity
NilP == [type |-> "nil", id |-> 0, provider |-> "", uid |-> "", userId |-> ""]

UserP(id) == [type |-> "User", id |-> id, provider |-> "", uid |-> "", userId |-> ""]

IdentityP(b) ==
    [type |-> "Identity", id |-> 0, provider |-> b.provider, uid |-> b.uid,
     userId |-> b.userId]

\* a request that has not arrived
IdleReq ==
    [pc |-> "idle", loginState |-> NoToken, state |-> NoToken,
     tkn |-> "nil", authInfo |-> Basic("", "", ""), currentUser |-> NilP,
     principal |-> NilP, err |-> "nil", ret |-> 0,
     exchangeCalls |-> 0, profileCalls |-> 0, dbOps |-> 0,
     usersCreated |-> 0, identitiesCreated |-> 0]

\* positions inside the handler
InHandler == {"exchange", "profile", "lookup", "loaduser", "createuser", "firstorcreate"}

\* a return statement of the handler, at the given source line
Return(rec, line, principal, err) ==
    [rec EXCEPT !.pc = "done", !.ret = line, !.principal = principal, !.err = err]

\* requests are numbered in order of arrival
Arrived(r) == IF r = 1 THEN TRUE ELSE req[r - 1].pc # "idle"

-----------------------------------------------------------------------------
(* Construction of the provider *)

\* the package variables AuthorizeURL and TokenURL
AuthorizeURL == "https://github.com/login/oauth/authorize"

TokenURL == "https://github.com/login/oauth/access_token"

\* a *Config handed to New; nil marks the nil pointer, authorizeHandler is
\* "nil" or "override" (a function of the host)
Cfg(clientID, clientSecret, authorizeURL, tokenURL, redirectURL, handler) ==
    [nil |-> FALSE, clientID |-> clientID, clientSecret |-> clientSecret,
     authorizeURL |-> authorizeURL, tokenURL |-> tokenURL,
     redirectURL |-> redirectURL, authorizeHandler |-> handler]

\* &Config{}
EmptyCfg == Cfg("", "", "", "", "", "nil")

NilCfg == [EmptyCfg EXCEPT !.nil = TRUE]

\* no oauth2.Config built yet
NoOAuth ==
    [caller |-> "", scheme |-> "", host |-> "", clientID |-> "", clientSecret |-> "",
     authURL |-> "", tokenURL |-> "", redirectURL |-> ""]

\* a provider not constructed yet, New about to be called with input
Unbuilt(input) ==
    [status |-> "unbuilt", input |-> input, cfg |-> EmptyCfg, panic |-> "",
     oauth |-> NoOAuth]

\* New looking at the ClientID only
NewWithoutSecretCheck(input) ==
    LET c == IF input.nil THEN EmptyCfg ELSE input
        base == Unbuilt(input)
    IN  IF c.clientID = ""
        THEN [base EXCEPT !.status = "panic", !.panic = "Github's ClientID can't be blank"]
        ELSE [base EXCEPT
                 !.status = "ok",
                 !.cfg = [c EXCEPT
                             !.authorizeURL = IF @ = "" THEN AuthorizeURL ELSE @,
                             !.tokenURL = IF @ = "" THEN TokenURL ELSE @,
                             !.authorizeHandler = IF @ = "nil" THEN "default" ELSE @]]

\* New installing the default handler whatever the Config carries
NewReplacingHandler(input) ==
    LET c == IF input.nil THEN EmptyCfg ELSE input
        base == Unbuilt(input)
    IN  IF c.clientID = ""
        THEN [base EXCEPT !.status = "panic", !.panic = "Github's ClientID can't be blank"]
        ELSE IF c.clientSecret = ""
        THEN [base EXCEPT !.status = "panic",
                          !.panic = "Github's ClientSecret can't be blank"]
        ELSE [base EXCEPT
                 !.status = "ok",
                 !.cfg = [c EXCEPT
                             !.authorizeURL = IF @ = "" THEN AuthorizeURL ELSE @,
                             !.tokenURL = IF @ = "" THEN TokenURL ELSE @,
                             !.authorizeHandler = "default"]]

\* New(config): the provider it returns, or the panic it ends in.  The
\* default AuthorizeHandler installed at line 62 is named "default".
New(input) ==
    LET c == IF input.nil THEN EmptyCfg ELSE input
        base == Unbuilt(input)
    IN  IF c.clientID = ""
        THEN [base EXCEPT !.status = "panic", !.panic = "Github's ClientID can't be blank"]
        ELSE IF c.clientSecret = ""
        THEN [base EXCEPT !.status = "panic",
                          !.panic = "Github's ClientSecret can't be blank"]
        ELSE [base EXCEPT
                 !.status = "ok",
                 !.cfg = [c EXCEPT
                             !.authorizeURL = IF @ = "" THEN AuthorizeURL ELSE @,
                             !.tokenURL = IF @ = "" THEN TokenURL ELSE @,
                             !.authorizeHandler = IF @ = "nil" THEN "default" ELSE @]]

\* the provider of the flows below: credentials set, everything else left
\* to its default
PlainCfg == Cfg("x", "y", "", "", "", "nil")

-----------------------------------------------------------------------------
(* The stores and configurations the host may start from *)

Seeds ==
    { [users |-> {}, identities |-> <<>>],
      [users |-> {1}, identities |-> <<Basic(GetName, Sprint(7), Sprint(1))>>],
      [users |-> {}, identities |-> <<Basic(GetName, Sprint(7), "")>>] }

\* every signing configuration, over an empty store
InitState ==
    /\ githubProvider = New(PlainCfg)
    /\ config \in [signingMethod : Methods, signedString : Secrets, userModel : {TRUE}]
    /\ users = {}
    /\ identities = <<>>
    /\ req = [r \in Flows |-> IdleReq]
    /\ overlapped = FALSE

\* every store, with and without a user model, under one signing configuration
InitLink ==
    /\ githubProvider = New(PlainCfg)
    /\ config \in [signingMethod : {"HS256"}, signedString : {"s1"}, userModel : BOOLEAN]
    /\ \E s \in Seeds : users = s.users /\ identities = s.identities
    /\ req = [r \in Flows |-> IdleReq]
    /\ overlapped = FALSE

\* state tokens presented to callbacks under InitLink: the one Login mints
\* and one signed by an outsider
LinkTokens == {Tok("jwt", "HS256", "state", "s1"), Tok("jwt", "HS256", "state", "s2")}

-----------------------------------------------------------------------------
(* GithubProvider.Login *)

Login(r) ==
    /\ githubProvider.status = "ok"
    /\ req[r].pc = "idle"
    /\ Arrived(r)
    /\ req' = [req EXCEPT ![r] =
                  [@ EXCEPT !.pc = "redirected",
                            !.loginState = Mint(config.signingMethod, config.signedString)]]
    /\ UNCHANGED <<githubProvider, config, users, identities, overlapped>>

-----------------------------------------------------------------------------
(* The default AuthorizeHandler (New, lines 62-127) *)

(* From the handler's entry to line 82: state parsing, the subject check   *)
(* and the branch on the parse error.  token.Claims of a nil token is a    *)
(* nil pointer dereference: the handler panics.                            *)
VerifyState(rec, tok) ==
    LET p == Parse(tok, config.signingMethod, config.signedString)
        in == [rec EXCEPT !.state = tok]
    IN  IF p.nil THEN [in EXCEPT !.pc = "panicked"]
        ELSE IF p.claims = "*StandardClaims" /\ (~p.valid \/ p.sub # "state")
             THEN Return(in, 79, NilP, "ErrUnauthorized")
        ELSE IF p.err = "nil" THEN [in EXCEPT !.pc = "exchange"]
        ELSE Return(in, 126, NilP, p.err)

\* GithubProvider.Callback: the host's login handler runs the authorize
\* handler on the request; tok is the request's state parameter
Callback(r, tok) ==
    /\ githubProvider.status = "ok"
    /\ githubProvider.cfg.authorizeHandler = "default"
    /\ req[r].pc \in {"idle", "redirected"}
    /\ Arrived(r)
    /\ req' = [req EXCEPT ![r] = VerifyState(@, tok)]
    /\ overlapped' = (overlapped \/ \E q \in Flows \ {r} : req[q].pc \in InHandler)
    /\ UNCHANGED <<githubProvider, config, users, identities>>

\* Exchange going on to the profile call whatever the exchange returned
ExchangeIgnoringError(r, ok) ==
    /\ req[r].pc = "exchange"
    /\ req' = [req EXCEPT ![r] =
                  [@ EXCEPT !.exchangeCalls = @ + 1, !.pc = "profile",
                            !.tkn = IF ok THEN "token" ELSE "nil",
                            !.state = NoToken, !.loginState = NoToken]]
    /\ UNCHANGED <<githubProvider, config, users, identities, overlapped>>

\* lines 83-88: oauthCfg.Exchange.  The state token plays no part after
\* line 82 and is forgotten here.
Exchange(r, ok) ==
    /\ req[r].pc = "exchange"
    /\ LET in == [req[r] EXCEPT !.exchangeCalls = @ + 1,
                                !.state = NoToken, !.loginState = NoToken]
       IN  req' = [req EXCEPT ![r] =
                      IF ok THEN [in EXCEPT !.pc = "profile", !.tkn = "token"]
                      ELSE Return(in, 87, NilP, "IssuerError")]
    /\ UNCHANGED <<githubProvider, config, users, identities, overlapped>>

\* lines 90-97: client.Users.Get and the join key
FetchProfile(r, ok, id) ==
    /\ req[r].pc = "profile"
    /\ LET in == [req[r] EXCEPT !.profileCalls = @ + 1]
       IN  req' = [req EXCEPT ![r] =
                      IF ok
                      THEN [in EXCEPT !.pc = "lookup",
                                      !.authInfo = Basic(GetName, Sprint(id), "")]
                      ELSE Return(in, 93, NilP, "IssuerError")]
    /\ UNCHANGED <<githubProvider, config, users, identities, overlapped>>

\* gorm's Where(struct): a row matches when it agrees with the condition on
\* every non-blank field of the condition
Matches(row, cond) ==
    /\ cond.provider # "" => row.provider = cond.provider
    /\ cond.uid # "" => row.uid = cond.uid
    /\ cond.userId # "" => row.userId = cond.userId

Matching(cond) == {i \in 1..Len(identities) : Matches(identities[i], cond)}

\* rows of the identity table with the given composite key
Rows(provider, uid) ==
    {i \in 1..Len(identities) :
        identities[i].provider = provider /\ identities[i].uid = uid}

\* Lookup giving an identity without a user a new user instead of refusing it
LookupAdoptingOrphan(r, fails) ==
    /\ req[r].pc = "lookup"
    /\ \E i \in (IF fails \/ Matching(req[r].authInfo) = {} THEN {0}
                 ELSE Matching(req[r].authInfo)) :
          LET notFound == ~fails /\ i = 0
              info == IF i = 0 THEN req[r].authInfo ELSE identities[i]
              in == [req[r] EXCEPT !.authInfo = info, !.dbOps = @ + 1]
          IN  req' = [req EXCEPT ![r] =
                  IF ~notFound
                  THEN IF config.userModel
                       THEN IF info.userId = ""
                            THEN [in EXCEPT !.pc = "createuser"]
                            ELSE [in EXCEPT !.pc = "loaduser"]
                       ELSE Return(in, 108, IdentityP(info), "nil")
                  ELSE IF config.userModel
                       THEN [in EXCEPT !.pc = "createuser"]
                       ELSE [in EXCEPT !.pc = "firstorcreate",
                                       !.currentUser = IdentityP(Basic("", "", ""))]]
    /\ UNCHANGED <<githubProvider, config, users, identities, overlapped>>

\* lines 99-109 up to tx.First: Model(authIdentity).Where(authInfo).Scan(&authInfo)
\* and the branch on RecordNotFound.  Scan reads every matching row into
\* authInfo, so any of them may be the one left there; a query that fails
\* with another error than "record not found" leaves authInfo as it was and
\* RecordNotFound() false.
Lookup(r, fails) ==
    /\ req[r].pc = "lookup"
    /\ \E i \in (IF fails \/ Matching(req[r].authInfo) = {} THEN {0}
                 ELSE Matching(req[r].authInfo)) :
          LET notFound == ~fails /\ i = 0
              info == IF i = 0 THEN req[r].authInfo ELSE identities[i]
              in == [req[r] EXCEPT !.authInfo = info, !.dbOps = @ + 1]
          IN  req' = [req EXCEPT ![r] =
                  IF ~notFound
                  THEN IF config.userModel
                       THEN IF info.userId = ""
                            THEN Return(in, 102, NilP, "ErrInvalidAccount")
                            ELSE [in EXCEPT !.pc = "loaduser"]
                       ELSE Return(in, 108, IdentityP(info), "nil")
                  ELSE IF config.userModel
                       THEN [in EXCEPT !.pc = "createuser"]
                       ELSE [in EXCEPT !.pc = "firstorcreate",
                                       !.currentUser = IdentityP(Basic("", "", ""))]]
    /\ UNCHANGED <<githubProvider, config, users, identities, overlapped>>

\* LoadUser reading the first row of the user table, whatever its key
LoadUserFirstRow(r, fails) ==
    /\ req[r].pc = "loaduser"
    /\ LET found == {u \in users : \A v \in users : u <= v}
           in == [req[r] EXCEPT !.dbOps = @ + 1]
       IN  req' = [req EXCEPT ![r] =
                      IF fails THEN Return(in, 106, UserP(0), "PersistenceError")
                      ELSE IF found = {} THEN Return(in, 106, UserP(0), "ErrRecordNotFound")
                      ELSE Return(in, 106, UserP(CHOOSE u \in found : TRUE), "nil")]
    /\ UNCHANGED <<githubProvider, config, users, identities, overlapped>>

\* lines 104-106: tx.First(currentUser, authInfo.UserID), the user whose
\* primary key reads as that string
LoadUser(r, fails) ==
    /\ req[r].pc = "loaduser"
    /\ LET found == {u \in users : Sprint(u) = req[r].authInfo.userId}
           in == [req[r] EXCEPT !.dbOps = @ + 1]
       IN  req' = [req EXCEPT ![r] =
                      IF fails THEN Return(in, 106, UserP(0), "PersistenceError")
                      ELSE IF found = {} THEN Return(in, 106, UserP(0), "ErrRecordNotFound")
                      ELSE Return(in, 106, UserP(CHOOSE u \in found : TRUE), "nil")]
    /\ UNCHANGED <<githubProvider, config, users, identities, overlapped>>

\* the primary key the store generates for the next user row
NextPK == Cardinality(users) + 1

\* CreateUser without the read-back of the generated key into authInfo
CreateUserWithoutKey(r, fails) ==
    /\ req[r].pc = "createuser"
    /\ IF fails
       THEN /\ req' = [req EXCEPT ![r] =
                          Return([@ EXCEPT !.dbOps = @ + 1], 116, NilP, "PersistenceError")]
            /\ UNCHANGED users
       ELSE /\ users' = users \cup {NextPK}
            /\ req' = [req EXCEPT ![r] =
                          [@ EXCEPT !.pc = "firstorcreate",
                                    !.currentUser = UserP(NextPK),
                                    !.usersCreated = @ + 1,
                                    !.dbOps = @ + 1]]
    /\ UNCHANGED <<githubProvider, config, identities, overlapped>>

\* lines 112-117: tx.Create(currentUser) and the key read back into authInfo
CreateUser(r, fails) ==
    /\ req[r].pc = "createuser"
    /\ IF fails
       THEN /\ req' = [req EXCEPT ![r] =
                          Return([@ EXCEPT !.dbOps = @ + 1], 116, NilP, "PersistenceError")]
            /\ UNCHANGED users
       ELSE /\ users' = users \cup {NextPK}
            /\ req' = [req EXCEPT ![r] =
                          [@ EXCEPT !.pc = "firstorcreate",
                                    !.currentUser = UserP(NextPK),
                                    !.authInfo.userId = Sprint(NextPK),
                                    !.usersCreated = @ + 1,
                                    !.dbOps = @ + 1]]
    /\ UNCHANGED <<githubProvider, config, identities, overlapped>>

\* FirstOrCreate deleting the user row of the callback when it fails
FirstOrCreateWithRollback(r, fault) ==
    /\ req[r].pc = "firstorcreate"
    /\ LET info == req[r].authInfo
           match == Matching(info)
           first == CHOOSE i \in match : \A j \in match : i <= j
           out == IF fault = "select" THEN Basic("", "", "")
                  ELSE IF match # {} THEN identities[first]
                  ELSE info
           creates == fault = "none" /\ match = {}
           principal == IF config.userModel THEN req[r].currentUser ELSE IdentityP(out)
           err == IF fault = "none" THEN "nil" ELSE "PersistenceError"
       IN  /\ fault = "insert" => match = {}
           /\ identities' = IF creates THEN Append(identities, info) ELSE identities
           /\ req' = [req EXCEPT ![r] =
                         Return([@ EXCEPT !.dbOps = @ + 1,
                                          !.identitiesCreated =
                                              IF creates THEN @ + 1 ELSE @],
                                123, principal, err)]
    /\ users' = IF fault = "none" THEN users ELSE users \ {req[r].currentUser.id}
    /\ UNCHANGED <<githubProvider, config, overlapped>>

\* lines 122-123: tx.Where(authInfo).FirstOrCreate(authIdentity), one
\* persistence operation: the first row matching authInfo's non-blank
\* fields, or else a new row carrying them.  fault is "select" when the
\* query fails, "insert" when the insertion does.  Without a user model
\* currentUser is authIdentity itself, which FirstOrCreate fills in.
FirstOrCreate(r, fault) ==
    /\ req[r].pc = "firstorcreate"
    /\ LET info == req[r].authInfo
           match == Matching(info)
           first == CHOOSE i \in match : \A j \in match : i <= j
           out == IF fault = "select" THEN Basic("", "", "")
                  ELSE IF match # {} THEN identities[first]
                  ELSE info
           creates == fault = "none" /\ match = {}
           principal == IF config.userModel THEN req[r].currentUser ELSE IdentityP(out)
           err == IF fault = "none" THEN "nil" ELSE "PersistenceError"
       IN  /\ fault = "insert" => match = {}
           /\ identities' = IF creates THEN Append(identities, info) ELSE identities
           /\ req' = [req EXCEPT ![r] =
                         Return([@ EXCEPT !.dbOps = @ + 1,
                                          !.identitiesCreated =
                                              IF creates THEN @ + 1 ELSE @],
                                123, principal, err)]
    /\ UNCHANGED <<githubProvider, config, users, overlapped>>

-----------------------------------------------------------------------------

\* the state parameter the browser of flow r brings back from the issuer
Minted(r) == IF req[r].loginState = NoToken THEN {} ELSE {req[r].loginState}

Handle(r) ==
    \/ \E ok \in BOOLEAN : Exchange(r, ok)
    \/ \E ok \in BOOLEAN, id \in ProfileIDs : FetchProfile(r, ok, id)
    \/ \E fails \in BOOLEAN : Lookup(r, fails)
    \/ \E fails \in BOOLEAN : LoadUser(r, fails)
    \/ \E fails \in BOOLEAN : CreateUser(r, fails)
    \/ \E fault \in {"none", "select", "insert"} : FirstOrCreate(r, fault)

NextState ==
    \E r \in Flows :
        \/ Login(r)
        \/ \E tok \in Tokens \cup Minted(r) : Callback(r, tok)
        \/ Handle(r)

NextLink ==
    \E r \in Flows :
        \/ Login(r)
        \/ \E tok \in LinkTokens \cup Minted(r) : Callback(r, tok)
        \/ Handle(r)

\* the state-token claims: every signing configuration and presented token
SpecState == InitState /\ [][NextState]_vars

\* the linking claims: every store, with and without a user model
SpecLink == InitLink /\ [][NextLink]_vars

-----------------------------------------------------------------------------
(* A Config with its own AuthorizeHandler *)

OverrideCfg == Cfg("x", "y", "", "", "", "override")

\* what the host's handler may return: a principal, an error
OverrideResults ==
    { [principal |-> UserP(1), err |-> "nil"],
      [principal |-> NilP, err |-> "OverrideError"] }

\* GithubProvider.Callback of a provider whose Config brought a handler:
\* the host's login handler runs that handler, which returns res
CallbackOverride(r, res) ==
    /\ githubProvider.status = "ok"
    /\ githubProvider.cfg.authorizeHandler = "override"
    /\ req[r].pc \in {"idle", "redirected"}
    /\ Arrived(r)
    /\ req' = [req EXCEPT ![r] = [@ EXCEPT !.pc = "done", !.principal = res.principal,
                                          !.err = res.err]]
    /\ UNCHANGED <<githubProvider, config, users, identities, overlapped>>

\* a provider built from a Config with or without a handler of its own
InitOverride ==
    /\ githubProvider \in {New(PlainCfg), New(OverrideCfg)}
    /\ config \in [signingMethod : {"HS256"}, signedString : {"s1"}, userModel : {TRUE}]
    /\ users = {}
    /\ identities = <<>>
    /\ req = [r \in Flows |-> IdleReq]
    /\ overlapped = FALSE

NextOverride ==
    \E r \in Flows :
        \/ Login(r)
        \/ \E tok \in LinkTokens \cup Minted(r) : Callback(r, tok)
        \/ \E res \in OverrideResults : CallbackOverride(r, res)
        \/ Handle(r)

\* the handler claim: the default handler and a handler of the host
SpecOverride == InitOverride /\ [][NextOverride]_vars

-----------------------------------------------------------------------------
(* New and GithubProvider.OAuthConfig on every Config and request *)

\* the Configs handed to New: nil, and every choice of blank and set fields
ConfigInputs ==
    {NilCfg} \cup
    {Cfg(id, secret, authorize, token, redirect, handler) :
        id \in {"", "x"}, secret \in {"", "y"},
        authorize \in {"", "https://ghe.example.org/login/oauth/authorize"},
        token \in {"", "https://ghe.example.org/login/oauth/access_token"},
        redirect \in {"", "https://login.example.org/github/return"},
        handler \in {"nil", "override"}}

\* req.URL.Scheme and req.Host of the requests
Schemes == {"", "http", "https"}

Hosts == {"app.example.org", "localhost:7000"}

\* session.AuthURL(pth): the path of the host under which pth is served
AuthURL(pth) == "/auth/" \o pth

\* GithubProvider.OAuthConfig(req, session), called by caller
OAuthConfig(c, caller, urlScheme, host) ==
    LET scheme == IF urlScheme = "" THEN "http://" ELSE urlScheme
    IN  [caller |-> caller, scheme |-> urlScheme, host |-> host,
         clientID |-> c.clientID, clientSecret |-> c.clientSecret,
         authURL |-> c.authorizeURL, tokenURL |-> c.tokenURL,
         redirectURL |-> scheme \o host \o AuthURL("github/callback")]

\* the call of New
Construct ==
    /\ githubProvider.status = "unbuilt"
    /\ githubProvider' = New(githubProvider.input)
    /\ UNCHANGED <<config, users, identities, req, overlapped>>

\* Login (line 165) and the default handler (line 83) build the OAuth
\* client configuration for their request
BuildOAuthConfig(caller, urlScheme, host) ==
    /\ githubProvider.status = "ok"
    /\ githubProvider' =
          [githubProvider EXCEPT !.oauth = OAuthConfig(githubProvider.cfg, caller, urlScheme, host)]
    /\ UNCHANGED <<config, users, identities, req, overlapped>>

InitNew ==
    /\ githubProvider \in {Unbuilt(input) : input \in ConfigInputs}
    /\ config \in [signingMethod : {"HS256"}, signedString : {"s1"}, userModel : {TRUE}]
    /\ users = {}
    /\ identities = <<>>
    /\ req = [r \in Flows |-> IdleReq]
    /\ overlapped = FALSE

NextNew ==
    \/ Construct
    \/ \E caller \in {"Login", "AuthorizeHandler"}, urlScheme \in Schemes, host \in Hosts :
          BuildOAuthConfig(caller, urlScheme, host)

\* the construction and redirect claims: every Config, every request
SpecNew == InitNew /\ [][NextNew]_vars

-----------------------------------------------------------------------------
(* Vocabulary of the properties *)

\* the decimal strings a profile's subject identifier renders to
UIDs == {Sprint(id) : id \in ProfileIDs}

Done(r) == req[r].pc = "done"

\* the handler returned a principal and a nil error
Succeeded(r) == Done(r) /\ req[r].err = "nil"

\* the handler took the first-time branch: its lookup reported no record
\* and it returned from the find-or-create at line 123
FirstTime(r) == Done(r) /\ req[r].ret = 123

\* at most one LocalIdentity row per (provider, uid)
AtMostOnePerKey ==
    \A i, j \in 1..Len(identities) :
        (identities[i].provider = identities[j].provider
            /\ identities[i].uid = identities[j].uid) => i = j

-----------------------------------------------------------------------------
(* Identity linking, checked under SpecLink *)

\* C1: after two or more concurrent first-time callbacks for the same
\* (provider, uid) have completed without a persistence failure, the store
\* holds exactly one LocalIdentity row with that key, with or without a
\* user model.
C1_OneIdentityAfterConcurrentFirstLogins ==
    \A u \in UIDs :
        LET firsts == {r \in Flows :
                          FirstTime(r) /\ Succeeded(r) /\ req[r].authInfo.uid = u}
        IN  Cardinality(firsts) >= 2 => Cardinality(Rows(GetName, u)) = 1

\* C2: with a user model, every callback that returns without error returns
\* the LocalUser whose primary key is the userId stored in the LocalIdentity
\* of its (provider, uid): the loser of a race observes the winner's row.
C2_LoserReturnsWinnersUser ==
    config.userModel =>
        \A r \in Flows :
            Succeeded(r) =>
                /\ req[r].principal.type = "User"
                /\ \A i \in Rows(GetName, req[r].authInfo.uid) :
                       identities[i].userId = Sprint(req[r].principal.id)

\* C3: while callbacks run one at a time, every store state has at most one
\* LocalIdentity row per (provider, uid), and a callback that found no row
\* with its key and returns successfully leaves exactly one.
C3_SerialCallbacksKeepKeyUnique ==
    [][ ~overlapped' =>
          /\ AtMostOnePerKey'
          /\ \A r \in Flows :
                (/\ req[r].pc \in InHandler
                 /\ req[r].authInfo.uid # ""
                 /\ Rows(GetName, req[r].authInfo.uid) = {}
                 /\ req'[r].pc = "done"
                 /\ req'[r].err = "nil")
                    => Cardinality(Rows(GetName, req[r].authInfo.uid)') = 1 ]_vars

\* C8: the steps of one callback run in the order state verification, token
\* exchange, profile fetch, identity linking, each only after the one before
\* succeeded: a failed exchange returns its error with no profile call and
\* no row created, a failed profile fetch returns its error with no
\* persistence operation performed.
C8_StepsInOrder ==
    \A r \in Flows :
        /\ req[r].pc = "exchange" =>
               Parse(req[r].state, config.signingMethod, config.signedString).err = "nil"
        /\ (req[r].pc = "panicked" \/ (Done(r) /\ req[r].ret \in {79, 126})) =>
               req[r].exchangeCalls = 0
        /\ req[r].profileCalls <= req[r].exchangeCalls
        /\ (req[r].pc = "profile" \/ req[r].profileCalls > 0) => req[r].tkn = "token"
        /\ (req[r].pc = "lookup" \/ req[r].dbOps > 0) => req[r].authInfo.uid \in UIDs
        /\ req[r].dbOps > 0 => req[r].profileCalls = 1
        /\ req[r].pc \in {"lookup", "loaduser", "createuser", "firstorcreate"} =>
               req[r].exchangeCalls = 1 /\ req[r].profileCalls = 1
        /\ (Done(r) /\ req[r].ret = 87) =>
               /\ req[r].err = "IssuerError" /\ req[r].principal = NilP
               /\ req[r].profileCalls = 0 /\ req[r].dbOps = 0
               /\ req[r].usersCreated = 0 /\ req[r].identitiesCreated = 0
        /\ (Done(r) /\ req[r].ret = 93) =>
               /\ req[r].err = "IssuerError" /\ req[r].principal = NilP
               /\ req[r].exchangeCalls = 1 /\ req[r].dbOps = 0
               /\ req[r].usersCreated = 0 /\ req[r].identitiesCreated = 0
        /\ (req[r].exchangeCalls = 1 /\ req[r].profileCalls = 0 /\ Done(r)) =>
               req[r].ret = 87

\* C8 witness: one callback stopped at a failed exchange, another at a
\* failed profile fetch, the store as it started
C8_Witness ==
    /\ \E r \in Flows : Done(r) /\ req[r].ret = 87 /\ req[r].profileCalls = 0
    /\ \E r \in Flows : Done(r) /\ req[r].ret = 93 /\ req[r].dbOps = 0
    /\ identities = <<>> /\ users = {}

\* C9: a first-time callback with a user model and no persistence failure
\* creates exactly one LocalUser row and exactly one LocalIdentity row,
\* whose userId is the string form of the new user's primary key, and
\* returns that LocalUser with no error.
C9_FirstLoginCreatesUserAndIdentity ==
    \A r \in Flows :
        (config.userModel /\ FirstTime(r) /\ Succeeded(r)) =>
            /\ req[r].usersCreated = 1
            /\ req[r].identitiesCreated = 1
            /\ req[r].principal.type = "User"
            /\ req[r].principal.id \in users
            /\ Cardinality({i \in 1..Len(identities) :
                               identities[i].userId = Sprint(req[r].principal.id)}) = 1
            /\ \E i \in Rows(GetName, req[r].authInfo.uid) :
                   identities[i] = Basic(GetName, req[r].authInfo.uid,
                                         Sprint(req[r].principal.id))
            /\ \A q \in Flows \ {r} :
                   (FirstTime(q) /\ Succeeded(q)) => req[q].principal # req[r].principal

\* C9 witness: a first login over the empty store, alone
C9_Witness ==
    /\ config.userModel /\ ~overlapped
    /\ users = {1}
    /\ identities = <<Basic("github", "42", "1")>>
    /\ \E r \in Flows : FirstTime(r) /\ Succeeded(r) /\ req[r].principal = UserP(1)

\* C10: without a user model every successful callback returns the
\* LocalIdentity stored for its (provider, uid), with the stored row's
\* provider, uid and userId, the userId being empty on first sighting, and
\* no LocalUser row is ever created.
C10_PrincipalIsStoredIdentity ==
    ~config.userModel =>
        \A r \in Flows :
            /\ req[r].usersCreated = 0
            /\ Succeeded(r) =>
                  /\ req[r].principal.type = "Identity"
                  /\ req[r].principal.provider = GetName
                  /\ req[r].principal.uid = req[r].authInfo.uid
                  /\ \E i \in Rows(GetName, req[r].authInfo.uid) :
                         IdentityP(identities[i]) = req[r].principal
                  /\ req[r].identitiesCreated = 1 => req[r].principal.userId = ""

-----------------------------------------------------------------------------
(* State-token verification, checked under SpecState *)

\* the callback of flow r has run its state verification
Verified(r) == req[r].pc \notin {"idle", "redirected"} /\ req[r].state # NoToken

\* the token presented to flow r's callback failed jwt.Parse
FailsVerification(r) ==
    Verified(r) /\ Parse(req[r].state, config.signingMethod, config.signedString).err # "nil"

\* the callback of flow r was rejected with auth.ErrUnauthorized
Unauthorized(r) == Done(r) /\ req[r].err = "ErrUnauthorized" /\ req[r].principal = NilP

\* C4: a callback whose state token carries the configured signing method
\* and the subject "state" but was signed with another secret is rejected
\* with auth.ErrUnauthorized and with no other error value.
C4_WrongSecretIsUnauthorized ==
    \A r \in Flows :
        (/\ Verified(r)
         /\ req[r].state.kind = "jwt"
         /\ req[r].state.alg = config.signingMethod
         /\ req[r].state.sub = "state"
         /\ req[r].state.key # config.signedString) => Unauthorized(r)

\* C5: a callback whose state token fails verification (wrong secret, wrong
\* signing method or unparsable) makes no token-exchange call and no
\* profile call, creates no LocalUser and no LocalIdentity row, leaves the
\* store unchanged and results in an error.
C5_FailedVerificationHasNoEffect ==
    \A r \in Flows :
        FailsVerification(r) =>
            /\ Done(r) /\ req[r].err # "nil" /\ req[r].principal = NilP
            /\ req[r].exchangeCalls = 0 /\ req[r].profileCalls = 0
            /\ req[r].dbOps = 0
            /\ req[r].usersCreated = 0 /\ req[r].identitiesCreated = 0

\* C6: a state token validly signed with the configured method and secret
\* whose subject is missing or is not "state" is rejected with Unauthorized
\* and never reaches the token exchange.
C6_WrongSubjectIsUnauthorized ==
    \A r \in Flows :
        (/\ Verified(r)
         /\ req[r].state.kind = "jwt"
         /\ req[r].state.alg = config.signingMethod
         /\ VerifyOK(req[r].state, config.signedString)
         /\ req[r].state.sub # "state") =>
            Unauthorized(r) /\ req[r].exchangeCalls = 0

\* flow r's callback presented the very token its Login minted
RoundTrip(r) ==
    Verified(r) /\ req[r].loginState # NoToken /\ req[r].state = req[r].loginState

\* C7 as stated: for every signing method and secret, the state token Login
\* mints passes the callback's verification under the same method and
\* secret, and the callback proceeds to the token exchange.
C7_RoundTripEveryMethod ==
    \A r \in Flows : RoundTrip(r) => req[r].pc = "exchange"

\* C7 as amended: for every signing method of the HMAC family (the methods
\* that sign with a byte-string key) and every secret, the state token Login
\* mints passes the callback's verification and the callback proceeds to the
\* token exchange.
C7_RoundTripHMAC ==
    \A r \in Flows :
        (RoundTrip(r) /\ config.signingMethod \in HMACMethods) => req[r].pc = "exchange"

\* C7 witness: a callback carrying the token of its own Login, at the token
\* exchange, under the second HMAC method and the second secret
C7_Witness ==
    /\ config.signingMethod = "HS512" /\ config.signedString = "s2"
    /\ \E r \in Flows :
          /\ RoundTrip(r)
          /\ req[r].state = Tok("jwt", "HS512", "state", "s2")
          /\ req[r].pc = "exchange"

-----------------------------------------------------------------------------
(* Returning identities *)

\* the key of the request has a row bound to a user
Bound(r) ==
    \E i \in Rows(GetName, req[r].authInfo.uid) : identities[i].userId # ""

\* every row of the request's key is bound to no user
Orphaned(r) ==
    /\ Rows(GetName, req[r].authInfo.uid) # {}
    /\ \A i \in Rows(GetName, req[r].authInfo.uid) : identities[i].userId = ""

\* C11: with a user model, the callback of a key that has an identity
\* bound to a user leaves both tables as they are from the lookup to the
\* return, never takes the first-time branch, ends after loading the user
\* in nothing but success or the store's failure, and on success returns
\* the user whose primary key reads as the userId of a row of that key.
C11_ReturningCallbackOnlyReads ==
    [][\A r \in Flows :
          LET looking == config.userModel /\ req[r].pc = "lookup" /\ Bound(r)
              loading == req[r].pc = "loaduser"
              new == req'[r]
          IN  (looking \/ loading) /\ new # req[r] =>
                 /\ users' = users
                 /\ identities' = identities
                 /\ new.usersCreated = 0
                 /\ new.identitiesCreated = 0
                 /\ looking => \/ new.pc = "loaduser"
                               \/ new.pc = "done" /\ new.err # "nil"
                 /\ loading => new.pc = "done" /\ new.err \in {"nil", "PersistenceError"}
                 /\ new.pc = "done" /\ new.err = "nil" =>
                       \E i \in Rows(GetName, new.authInfo.uid), k \in users :
                          /\ identities[i].userId # ""
                          /\ Sprint(k) = identities[i].userId
                          /\ new.principal = UserP(k)]_vars

\* a returning callback has handed back user 1 and the store is the seed
C11_Witness ==
    \E r \in Flows :
       /\ Done(r)
       /\ req[r].ret = 106
       /\ req[r].err = "nil"
       /\ req[r].principal = UserP(1)
       /\ req[r].authInfo = Basic(GetName, "7", "1")
       /\ users = {1}
       /\ identities = <<Basic(GetName, "7", "1")>>

\* C12: with a user model, the callback of a key whose identity has an
\* empty userId ends at the lookup with ErrInvalidAccount and no principal,
\* and has created no row: both tables are as they were.
C12_OrphanIdentityIsInvalidAccount ==
    [][\A r \in Flows :
          config.userModel /\ req[r].pc = "lookup" /\ Orphaned(r) /\ req'[r] # req[r] =>
             /\ req'[r].pc = "done"
             /\ req'[r].ret = 102
             /\ req'[r].err = "ErrInvalidAccount"
             /\ req'[r].principal = NilP
             /\ req'[r].usersCreated = 0
             /\ req'[r].identitiesCreated = 0
             /\ users' = users
             /\ identities' = identities]_vars

\* the callback of the identity without a user has been refused
C12_Witness ==
    \E r \in Flows :
       /\ config.userModel
       /\ Done(r)
       /\ req[r].ret = 102
       /\ req[r].err = "ErrInvalidAccount"
       /\ req[r].principal = NilP
       /\ Orphaned(r)
       /\ users = {}
       /\ identities = <<Basic(GetName, "7", "")>>

-----------------------------------------------------------------------------
(* One use of a state token *)

\* the callback of flow r has accepted its state parameter: verification is
\* over and the code exchange is next
Accepted(r) == req[r].pc = "exchange"

\* C13: a state token is consumed once and only by its own flow: no two
\* callbacks have accepted the same token, and a token that the login of
\* one flow minted is accepted by no flow whose login did not mint it.
C13_StateTokenUsedOnceByItsFlow ==
    \A r \in Flows :
       Accepted(r) =>
          \A q \in Flows \ {r} :
             /\ ~(Accepted(q) /\ req[q].state = req[r].state)
             /\ req[q].loginState = req[r].state => req[r].loginState = req[r].state

-----------------------------------------------------------------------------
(* A state parameter that is no token *)

\* C14: a callback whose state parameter is absent or does not parse into
\* a token object, so that jwt.Parse yields only an error, has returned
\* that parse error with no principal: the handler did not crash.
C14_NoTokenObjectReturnsParseError ==
    \A r \in Flows :
       LET p == Parse(req[r].state, config.signingMethod, config.signedString)
       IN  Verified(r) /\ p.nil =>
              /\ req[r].pc # "panicked"
              /\ Done(r)
              /\ req[r].err = p.err
              /\ req[r].principal = NilP

-----------------------------------------------------------------------------
(* A handler supplied by the Config *)

\* C15: when the Config supplies an authorizeHandler, New keeps it, the
\* callback runs it in place of the default handler, and the provider
\* verifies no state, calls the issuer for neither token nor profile and
\* touches the store not at all; what the callback ends in is what the
\* supplied handler returned.
C15_OverrideBypassesDefaultHandler ==
    githubProvider.status = "ok" /\ githubProvider.input.authorizeHandler = "override" =>
       /\ githubProvider.cfg.authorizeHandler = "override"
       /\ users = {}
       /\ identities = <<>>
       /\ \A r \in Flows :
             /\ req[r].pc \in {"idle", "redirected", "done"}
             /\ req[r].state = NoToken
             /\ req[r].ret = 0
             /\ req[r].exchangeCalls = 0
             /\ req[r].profileCalls = 0
             /\ req[r].dbOps = 0
             /\ req[r].usersCreated = 0
             /\ req[r].identitiesCreated = 0
             /\ Done(r) =>
                   [principal |-> req[r].principal, err |-> req[r].err] \in OverrideResults

\* a callback has ended in the principal of the supplied handler
C15_Witness ==
    /\ githubProvider.input.authorizeHandler = "override"
    /\ \E r \in Flows :
          /\ Done(r)
          /\ req[r].principal = UserP(1)
          /\ req[r].err = "nil"
          /\ req[r].dbOps = 0

-----------------------------------------------------------------------------
(* The redirect URL of the OAuth client configuration *)

\* an OAuth client configuration has been built for a request
Built == githubProvider.status = "ok" /\ githubProvider.oauth.caller # ""

\* C16: when Config.RedirectURL is set, the OAuth client configuration
\* built for a request, by Login or by the callback, carries that URL as
\* it is, whatever the scheme and host of the request.
C16_StaticRedirectURLVerbatim ==
    Built /\ githubProvider.cfg.redirectURL # "" =>
       githubProvider.oauth.redirectURL = githubProvider.cfg.redirectURL

\* C17: when Config.RedirectURL is empty, the built redirect URL is
\* <scheme>://<host><callback path>, with the scheme of the request when
\* it has one and with http when it has none.
C17_DerivedRedirectURL ==
    Built /\ githubProvider.cfg.redirectURL = "" =>
       LET o == githubProvider.oauth
       IN  o.redirectURL =
              (IF o.scheme = "" THEN "http" ELSE o.scheme)
                 \o "://" \o o.host \o AuthURL("github/callback")

-----------------------------------------------------------------------------
(* Construction *)

\* C18: New fails, by panicking, exactly for the Configs whose ClientID or
\* ClientSecret is empty, the nil Config among them, and then there is no
\* provider to build anything with; for every other Config it returns a
\* provider with the credentials as given and with AuthorizeURL and
\* TokenURL at the issuer's defaults when they were empty and as given
\* when they were not.
C18_NewChecksCredentialsAndDefaultsURLs ==
    githubProvider.status # "unbuilt" =>
       LET input == githubProvider.input
           blank == input.nil \/ input.clientID = "" \/ input.clientSecret = ""
           c == githubProvider.cfg
       IN  /\ blank <=> githubProvider.status = "panic"
           /\ ~blank <=> githubProvider.status = "ok"
           /\ blank => githubProvider.panic # "" /\ c = EmptyCfg /\ ~Built
           /\ ~blank =>
                 /\ githubProvider.panic = ""
                 /\ c.clientID = input.clientID
                 /\ c.clientSecret = input.clientSecret
                 /\ c.redirectURL = input.redirectURL
                 /\ c.authorizeURL =
                       (IF input.authorizeURL = "" THEN AuthorizeURL ELSE input.authorizeURL)
                 /\ c.tokenURL = (IF input.tokenURL = "" THEN TokenURL ELSE input.tokenURL)

\* New has returned a provider for a Config that left AuthorizeURL empty
\* and set TokenURL
C18_Witness ==
    /\ githubProvider.status = "ok"
    /\ githubProvider.input.authorizeURL = ""
    /\ githubProvider.input.tokenURL # ""
    /\ githubProvider.cfg.authorizeURL = AuthorizeURL
    /\ githubProvider.cfg.tokenURL = githubProvider.input.tokenURL

-----------------------------------------------------------------------------
(* Failures of the first-time branch *)

\* C19: in a first-time callback with a user model, a failed creation of
\* the user ends the handler with that error, no principal and no row
\* written; a failure of FirstOrCreate after the user was created returns
\* the store's error and deletes nothing: the user row stays, and no
\* identity row refers to it.
C19_FirstTimeFailuresLeaveNoIdentity ==
    [][\A r \in Flows :
          LET new == req'[r]
              uid == req[r].currentUser.id
          IN  /\ req[r].pc = "createuser" /\ new.pc = "done" =>
                    /\ new.ret = 116
                    /\ new.err = "PersistenceError"
                    /\ new.principal = NilP
                    /\ new.usersCreated = 0
                    /\ new.identitiesCreated = 0
                    /\ users' = users
                    /\ identities' = identities
              /\ ( /\ config.userModel
                   /\ req[r].pc = "firstorcreate"
                   /\ new.pc = "done"
                   /\ new.err # "nil" ) =>
                    /\ new.ret = 123
                    /\ new.err = "PersistenceError"
                    /\ new.usersCreated = 1
                    /\ new.identitiesCreated = 0
                    /\ users' = users
                    /\ identities' = identities
                    /\ uid \in users'
                    /\ \A i \in 1..Len(identities') : identities'[i].userId # Sprint(uid)]_vars

\* FirstOrCreate has failed after the user was created: the user row is
\* there and no identity refers to it
C19_Witness ==
    \E r \in Flows :
       /\ config.userModel
       /\ Done(r)
       /\ req[r].ret = 123
       /\ req[r].err = "PersistenceError"
       /\ req[r].usersCreated = 1
       /\ req[r].currentUser.id \in users
       /\ \A i \in 1..Len(identities) : identities[i].userId # Sprint(req[r].currentUser.id)

-----------------------------------------------------------------------------
(* What the handler returns *)

\* C20: every return of the default handler carries a principal or an
\* error and never both: when the error is not nil the principal is nil.
C20_ErrorMeansNoPrincipal ==
    \A r \in Flows : Done(r) /\ req[r].err # "nil" => req[r].principal = NilP

====
